---- MODULE Spec2Model ----
(***************************************************************************)
(* Model of safe-update-and-delete-plugin.ts: the hook that adds the       *)
(* required timestamp field to update/delete input types, and the resolver *)
(* wrapper that verifies the timestamp under a row lock before the         *)
(* underlying mutation runs.                                               *)
(*                                                                         *)
(* Timestamps are integers counting microseconds.  One table "item" with   *)
(* primary key (org_id, item_id) stands for the introspected table.        *)
(***************************************************************************)
EXTENDS Integers, Sequences, FiniteSets, TLC

\* '5 microsecond'::interval of the verification query
Tolerance == 5

\* timestamp stored in the rows that exist when the server starts
InitTs == 6

\* concurrent resolver invocations
Calls == {"c1", "c2"}

\* values a primary-key column takes
KeyVals == {1, 2}

\* how far an underlying update moves the stored timestamp
Advances == {Tolerance, Tolerance + 1}

\* timestamps a client sends
SuppliedTs == {InitTs, InitTs + Tolerance, InitTs + Tolerance + 1}

NoCall == "none"

\* the option passed to makeSafeUpdateAndDeletePlugin
timestampColumn == "updated_at"

PrimaryKey == <<"org_id", "item_id">>

Keys == {<<a, b>> : a \in KeyVals, b \in KeyVals}

\* position of a key column in a row key
KeyIndex(col) == CHOOSE i \in 1..Len(PrimaryKey) : PrimaryKey[i] = col

\* the introspected table: attributes, primary key constraint and smart tags
TableOf(hasTs, optOut) ==
  [ name       |-> "item",
    attributes |-> IF hasTs THEN PrimaryKey \o <<timestampColumn>> ELSE PrimaryKey,
    keyAttributes |-> PrimaryKey,
    tags       |-> [disableSafeUpdateAndDelete |-> IF optOut THEN "true" ELSE "undefined"] ]

\* JavaScript !!v on a tag value
Truthy(v) == v \notin {"undefined", "", "null"}

\* inflection.column: the GraphQL field name of a column
Column(attr) ==
  CASE attr = "org_id"     -> "orgId"
    [] attr = "item_id"    -> "itemId"
    [] attr = "updated_at" -> "updatedAt"
    [] OTHER               -> attr

nodeIdFieldName == "nodeId"

\* gql2pg: a GraphQL input value as an SQL value of the column's type
Gql2pg(val, attr) == [sqlValue |-> val, cast |-> attr]

\* attributes.find(a => a.name === timestampColumn)
FindTimestampAttribute(t) ==
  IF \E i \in 1..Len(t.attributes) : t.attributes[i] = timestampColumn
  THEN <<timestampColumn>> ELSE <<>>

-----------------------------------------------------------------------------
(* Schema fragments: the input types the hook sees while the schema builds *)

Field(name, nonNull, description) ==
  [name |-> name, nonNull |-> nonNull, description |-> description]

InputTypeScope(name, isUpdate, isDelete, hasTable, fields) ==
  [ name |-> name, isPgUpdateInputType |-> isUpdate, isPgDeleteInputType |-> isDelete,
    hasPgIntrospection |-> hasTable, hasPgFieldIntrospection |-> FALSE, fields |-> fields ]

KeyFields == {Field(Column(PrimaryKey[i]), TRUE, "key") : i \in 1..Len(PrimaryKey)}
NodeFields == {Field(nodeIdFieldName, TRUE, "node id")}
PatchField == Field("patch", TRUE, "patch")

\* the input types PostGraphile generates for the table, and one input type
\* whose scope has no pgIntrospection (such as the built-in IntervalInput)
TableInputTypes ==
  << InputTypeScope("UpdateItemInput", TRUE, FALSE, TRUE, KeyFields \cup {PatchField}),
     InputTypeScope("UpdateItemByNodeIdInput", TRUE, FALSE, TRUE, NodeFields \cup {PatchField}),
     InputTypeScope("DeleteItemInput", FALSE, TRUE, TRUE, KeyFields),
     InputTypeScope("DeleteItemByNodeIdInput", FALSE, TRUE, TRUE, NodeFields),
     InputTypeScope("CreateItemInput", FALSE, FALSE, TRUE, {Field("item", TRUE, "row")}) >>

ForeignInputType ==
  InputTypeScope("IntervalInput", FALSE, FALSE, FALSE, {Field("seconds", FALSE, "interval")})

\* variant of omit that ignores the tag
omitNever(scope, t) == FALSE

\* omit: the table of the scope (pgFieldIntrospection || pgIntrospection, here
\* always t) carries the disableSafeUpdateAndDelete tag
omit(scope, t) == Truthy(t.tags.disableSafeUpdateAndDelete)

TimestampField(mode) ==
  Field(Column(timestampColumn), TRUE, "existing row to be " \o mode \o "d")

\* variant of the hook without the timestampAttribute check
AddTimestampFieldAlways(scope, t) ==
  IF ~scope.hasPgIntrospection
  THEN [error |-> "TypeError", fields |-> {}]
  ELSE IF ~scope.isPgUpdateInputType /\ ~scope.isPgDeleteInputType
  THEN [error |-> "", fields |-> scope.fields]
  ELSE IF omit(scope, t)
  THEN [error |-> "", fields |-> scope.fields]
  ELSE [error |-> "",
        fields |-> scope.fields \cup
                   {TimestampField(IF scope.isPgUpdateInputType THEN "update" ELSE "delete")}]

\* variant of the hook that handles update input types only
AddTimestampFieldUpdateOnly(scope, t) ==
  IF ~scope.hasPgIntrospection
  THEN [error |-> "TypeError", fields |-> {}]
  ELSE IF ~scope.isPgUpdateInputType
  THEN [error |-> "", fields |-> scope.fields]
  ELSE IF omit(scope, t)
  THEN [error |-> "", fields |-> scope.fields]
  ELSE IF FindTimestampAttribute(t) = <<>>
  THEN [error |-> "", fields |-> scope.fields]
  ELSE [error |-> "", fields |-> scope.fields \cup {TimestampField("update")}]

\* The "GraphQLInputObjectType:fields" hook.  Returns the fields, or the error
\* thrown.  scope.pgIntrospection.attributes is read before anything else.
AddTimestampFieldPlugin(scope, t) ==
  IF ~scope.hasPgIntrospection
  THEN [error |-> "TypeError", fields |-> {}]
  ELSE IF ~scope.isPgUpdateInputType /\ ~scope.isPgDeleteInputType
  THEN [error |-> "", fields |-> scope.fields]
  ELSE IF omit(scope, t)
  THEN [error |-> "", fields |-> scope.fields]
  ELSE IF FindTimestampAttribute(t) = <<>>
  THEN [error |-> "", fields |-> scope.fields]
  ELSE [error |-> "",
        fields |-> scope.fields \cup
                   {TimestampField(IF scope.isPgUpdateInputType THEN "update" ELSE "delete")}]

-----------------------------------------------------------------------------
(* Mutation fields and their resolvers                                      *)

FieldScope(name, isRoot, isUpdate, isDelete, isNode, inputType) ==
  [ name |-> name, isRootMutation |-> isRoot, isPgUpdateMutationField |-> isUpdate,
    isPgDeleteMutationField |-> isDelete, isPgNodeMutation |-> isNode,
    inputType |-> inputType ]

NoScope == FieldScope("", FALSE, FALSE, FALSE, FALSE, "")

\* the fields of the schema a client can invoke: the CRUD mutations of the table
\* and one field outside the Mutation type
SchemaFields ==
  { FieldScope("updateItem", TRUE, TRUE, FALSE, FALSE, "UpdateItemInput"),
    FieldScope("updateItemByNodeId", TRUE, TRUE, FALSE, TRUE, "UpdateItemByNodeIdInput"),
    FieldScope("deleteItem", TRUE, FALSE, TRUE, FALSE, "DeleteItemInput"),
    FieldScope("deleteItemByNodeId", TRUE, FALSE, TRUE, TRUE, "DeleteItemByNodeIdInput"),
    FieldScope("createItem", TRUE, FALSE, FALSE, FALSE, "CreateItemInput"),
    FieldScope("item", FALSE, FALSE, FALSE, FALSE, "") }

\* variant of isRelevantMutation that takes every root mutation
isRelevantMutationAnyRoot(scope) == scope.isRootMutation

isRelevantMutation(scope) ==
  scope.isRootMutation /\ (scope.isPgUpdateMutationField \/ scope.isPgDeleteMutationField)

\* the filter of makeWrapResolversPlugin: TRUE when the resolver gets wrapped
WrapFilter(scope, t) == isRelevantMutation(scope) /\ ~omit(scope, t)

\* node ids are the decoded JSON arrays [alias, ...identifiers]
NodeIds ==
  { <<"items", 1, 1>>, <<"items", 1, 2>>, <<"items", 2, 2>>,
    <<"items", 1>>, <<"items", 1, 1, 1>>, <<"users", 1, 1>>, <<"users", 1>> }

TypeByAlias(alias) == IF alias = "items" THEN "Item" ELSE "User"

\* pgGetGqlTypeByTypeIdAndModifier(table.type.id, null)
TableType == "Item"

getTypeAndIdentifiersFromNodeId(nodeId) ==
  [Type |-> TypeByAlias(Head(nodeId)), identifiers |-> Tail(nodeId)]

\* A condition is the list of its conjuncts, column = value.
getMutationCondition(t, input) ==
  [ error |-> "",
    condition |-> [i \in 1..Len(t.keyAttributes) |->
                    [ column |-> t.keyAttributes[i],
                      value  |-> Gql2pg(input[Column(t.keyAttributes[i])], t.keyAttributes[i]) ]] ]

\* variant of getNodeMutationCondition without the type check
getNodeMutationConditionUntyped(t, input) ==
  LET primaryKeys == t.keyAttributes
      decoded == getTypeAndIdentifiersFromNodeId(input[nodeIdFieldName])
  IN  IF Len(decoded.identifiers) # Len(primaryKeys)
      THEN [error |-> "Invalid ID", condition |-> <<>>]
      ELSE [ error |-> "",
             condition |-> [i \in 1..Len(primaryKeys) |->
                             [ column |-> primaryKeys[i],
                               value  |-> Gql2pg(decoded.identifiers[i], primaryKeys[i]) ]] ]

\* variant of getNodeMutationCondition that pairs the identifiers with the key
\* columns in reverse order
getNodeMutationConditionReversed(t, input) ==
  LET primaryKeys == t.keyAttributes
      decoded == getTypeAndIdentifiersFromNodeId(input[nodeIdFieldName])
  IN  IF decoded.Type # TableType
      THEN [error |-> "Mismatched type", condition |-> <<>>]
      ELSE IF Len(decoded.identifiers) # Len(primaryKeys)
      THEN [error |-> "Invalid ID", condition |-> <<>>]
      ELSE [ error |-> "",
             condition |-> [i \in 1..Len(primaryKeys) |->
                             [ column |-> primaryKeys[i],
                               value  |-> Gql2pg(decoded.identifiers[Len(primaryKeys) + 1 - i],
                                                 primaryKeys[i]) ]] ]

getNodeMutationCondition(t, input) ==
  LET primaryKeys == t.keyAttributes
      decoded == getTypeAndIdentifiersFromNodeId(input[nodeIdFieldName])
  IN  IF decoded.Type # TableType
      THEN [error |-> "Mismatched type", condition |-> <<>>]
      ELSE IF Len(decoded.identifiers) # Len(primaryKeys)
      THEN [error |-> "Invalid ID", condition |-> <<>>]
      ELSE [ error |-> "",
             condition |-> [i \in 1..Len(primaryKeys) |->
                             [ column |-> primaryKeys[i],
                               value  |-> Gql2pg(decoded.identifiers[i], primaryKeys[i]) ]] ]

\* variant of the verification query without "for update"
getVerifyTimestampSqlQueryUnlocked(scope, t, input) ==
  LET c == IF scope.isPgNodeMutation
           THEN getNodeMutationCondition(t, input)
           ELSE getMutationCondition(t, input)
  IN  IF c.error # ""
      THEN [error |-> c.error, condition |-> <<>>, lmValue |-> Gql2pg(0, ""), forUpdate |-> FALSE]
      ELSE [ error |-> "", condition |-> c.condition,
             lmValue |-> Gql2pg(input[Column(timestampColumn)], timestampColumn),
             forUpdate |-> FALSE ]

\* select lmValue between (col - 5us) and (col + 5us) as ok from t where condition for update
getVerifyTimestampSqlQuery(scope, t, input) ==
  LET c == IF scope.isPgNodeMutation
           THEN getNodeMutationCondition(t, input)
           ELSE getMutationCondition(t, input)
  IN  IF c.error # ""
      THEN [error |-> c.error, condition |-> <<>>, lmValue |-> Gql2pg(0, ""), forUpdate |-> FALSE]
      ELSE [ error |-> "", condition |-> c.condition,
             lmValue |-> Gql2pg(input[Column(timestampColumn)], timestampColumn),
             forUpdate |-> TRUE ]

-----------------------------------------------------------------------------
(* The database: rows of the table by primary key, and row locks           *)

Row(present, ts) == [present |-> present, ts |-> ts]

\* a row satisfies a condition when every conjunct holds of its key columns
Matches(condition, k) ==
  \A i \in 1..Len(condition) : k[KeyIndex(condition[i].column)] = condition[i].value.sqlValue

\* variant of the comparison with a window one microsecond wider
BetweenWide(lmValue, ts) ==
  IF ts = <<>> THEN "null"
  ELSE IF lmValue.sqlValue >= ts[1] - (Tolerance + 1) /\ lmValue.sqlValue <= ts[1] + (Tolerance + 1)
  THEN "true" ELSE "false"

\* variant of the comparison that excludes the ends of the window
BetweenExclusive(lmValue, ts) ==
  IF ts = <<>> THEN "null"
  ELSE IF lmValue.sqlValue > ts[1] - Tolerance /\ lmValue.sqlValue < ts[1] + Tolerance
  THEN "true" ELSE "false"

\* lmValue between (ts - 5us) and (ts + 5us); NULL when the stored value is NULL
Between(lmValue, ts) ==
  IF ts = <<>> THEN "null"
  ELSE IF lmValue.sqlValue >= ts[1] - Tolerance /\ lmValue.sqlValue <= ts[1] + Tolerance
  THEN "true" ELSE "false"

\* rows.every(row => row.ok)
EveryOk(result) == \A k \in DOMAIN result : result[k] = "true"

ConflictError == [kind |-> "error", value |-> "Mutation blocked due to conflict."]

-----------------------------------------------------------------------------
(* State                                                                    *)

VARIABLES
  phase,   \* "build" while the schema is built, then "serve"; "failed" when a hook threw
  table,   \* the introspected table
  types,   \* the input types the schema build hands to the hook, in order
  built,   \* the fields the hook returned for the input types handled so far
  rows,    \* committed rows of the table, by primary key
  lock,    \* the call whose transaction holds the row lock of a key
  call     \* one record per resolver invocation

vars == <<phase, table, types, built, rows, lock, call>>

Result(kind, value) == [kind |-> kind, value |-> value]

IdleCall ==
  [ pc |-> "idle", scope |-> NoScope, input |-> <<>>, wrapped |-> FALSE,
    queries |-> 0, decision |-> "none", seen |-> <<>>,
    execArgs |-> <<>>, execResult |-> <<>>, result |-> <<>>, writes |-> <<>> ]

\* the rows the table holds when the server starts: two rows stamped InitTs,
\* one row whose timestamp is NULL, and one key without a row
InitRows(t) ==
  [ k \in Keys |->
      IF k = <<2, 2>> THEN Row(FALSE, <<>>)
      ELSE IF k = <<2, 1>> \/ FindTimestampAttribute(t) = <<>> THEN Row(TRUE, <<>>)
      ELSE Row(TRUE, <<InitTs>>) ]

Init ==
  /\ phase = "build"
  /\ \E hasTs \in BOOLEAN, optOut \in BOOLEAN : table = TableOf(hasTs, optOut)
  /\ \E foreign \in BOOLEAN :
       types = IF foreign THEN TableInputTypes \o <<ForeignInputType>> ELSE TableInputTypes
  /\ built = <<>>
  /\ rows = InitRows(table)
  /\ lock = [k \in Keys |-> NoCall]
  /\ call = [c \in Calls |-> IdleCall]

-----------------------------------------------------------------------------
(* Schema build                                                             *)

\* graphile-build runs the fields hook once for each input type
BuildInputType ==
  /\ phase = "build"
  /\ Len(built) < Len(types)
  /\ LET scope == types[Len(built) + 1]
         out   == AddTimestampFieldPlugin(scope, table)
     IN  IF out.error # ""
         THEN /\ phase' = "failed"
              /\ built' = built
         ELSE /\ phase' = phase
              /\ built' = Append(built, [name |-> scope.name, fields |-> out.fields])
  /\ UNCHANGED <<table, types, rows, lock, call>>

FinishBuild ==
  /\ phase = "build"
  /\ Len(built) = Len(types)
  /\ phase' = "serve"
  /\ UNCHANGED <<table, types, built, rows, lock, call>>

\* the fields of a built input type
BuiltFields(b, name) ==
  IF \E i \in 1..Len(b) : b[i].name = name
  THEN b[CHOOSE i \in 1..Len(b) : b[i].name = name].fields
  ELSE {}

HasField(fields, name) == \E f \in fields : f.name = name

-----------------------------------------------------------------------------
(* Requests                                                                 *)

KeyInputs ==
  { (Column(PrimaryKey[1]) :> a) @@ (Column(PrimaryKey[2]) :> b) : a \in KeyVals, b \in KeyVals }

NodeInputs == { (nodeIdFieldName :> n) : n \in NodeIds }

\* The inputs GraphQL validation lets through for a field: every required field
\* of the built input type is present, and no field the type does not have.
InputsOf(f, b) ==
  LET fields == BuiltFields(b, f.inputType)
      ids == IF HasField(fields, nodeIdFieldName) THEN NodeInputs
             ELSE IF HasField(fields, Column(PrimaryKey[1])) THEN KeyInputs
             ELSE {("id" :> 1)}
      stamps == IF HasField(fields, nodeIdFieldName)
                THEN {InitTs, InitTs + Tolerance + 1} ELSE SuppliedTs
  IN  IF HasField(fields, Column(timestampColumn))
      THEN { i @@ (Column(timestampColumn) :> s) : i \in ids, s \in stamps }
      ELSE ids

\* the parameters GraphQL passes to a resolver: parent, args, context, resolveInfo
ResolveParams(input) == <<"parent", input, "context", "resolveInfo">>

\* makeWrapResolversPlugin hands the wrapper a resolver that takes the original
\* parameters for every parameter the wrapper does not override
SmartResolve(override, params) ==
  override \o SubSeq(params, Len(override) + 1, Len(params))

\* variant of the resolver call that overrides the first parameter
ResolverOverrideParent == <<"other parent">>

\* the arguments of the call (resolver as any)()
ResolverOverride == <<>>

\* variant of the wrapper's return that catches the resolver's error and
\* reports a conflict instead
WrapperReturnMasked(execResult) ==
  IF execResult.kind = "error" THEN ConflictError ELSE execResult

\* return (resolver as any)(): the wrapper's result is the resolver's
WrapperReturn(execResult) == execResult

\* variant of verifyTimestamp that throws only for a comparison that is false
verifyTimestampFalseOnly(result) ==
  IF \E k \in DOMAIN result : result[k] = "false" THEN ConflictError.value ELSE ""

\* verifyTimestamp after the query returned: the error it throws, or ""
verifyTimestamp(result) ==
  IF ~EveryOk(result) THEN ConflictError.value ELSE ""

\* The synchronous start of a call: the unwrapped resolver, or the wrapper up
\* to its first await.
BeginCall(f, t, input) ==
  LET base   == [IdleCall EXCEPT !.scope = f, !.input = input]
      params == ResolveParams(input)
  IN  IF ~WrapFilter(f, t)
      THEN [base EXCEPT !.pc = "executing", !.execArgs = <<params>>]
      ELSE IF FindTimestampAttribute(t) = <<>>
      THEN [base EXCEPT !.wrapped = TRUE, !.pc = "executing",
                        !.execArgs = <<SmartResolve(ResolverOverride, params)>>]
      ELSE LET q == getVerifyTimestampSqlQuery(f, t, input)
           IN  IF q.error # ""
               THEN [base EXCEPT !.wrapped = TRUE, !.pc = "done", !.decision = "error",
                                 !.result = <<Result("error", q.error)>>]
               ELSE [base EXCEPT !.wrapped = TRUE, !.pc = "verifying", !.queries = 1]

Resolve(c) ==
  /\ phase = "serve"
  /\ call[c].pc = "idle"
  /\ \E f \in SchemaFields : \E input \in InputsOf(f, built) :
       call' = [call EXCEPT ![c] = BeginCall(f, table, input)]
  /\ UNCHANGED <<phase, table, types, built, rows, lock>>

\* keys a condition selects, and those of them that have a committed row
Candidates(condition) == {k \in Keys : Matches(condition, k)}

\* variant of the lock wait that waits for every locked row of the table
FreeForTable(c, ks) == \A k \in Keys : lock[k] \in {NoCall, c}

FreeFor(c, ks) == \A k \in ks : lock[k] \in {NoCall, c}

\* The verification query returns (a locking read waits for the row locks of
\* other transactions and then reads the committed rows), and the wrapper
\* continues: it throws the conflict error or calls the resolver.
VerifyReturn(c) ==
  /\ call[c].pc = "verifying"
  /\ LET q       == getVerifyTimestampSqlQuery(call[c].scope, table, call[c].input)
         matched == {k \in Candidates(q.condition) : rows[k].present}
         result  == [k \in matched |-> Between(q.lmValue, rows[k].ts)]
         error   == verifyTimestamp(result)
         params  == ResolveParams(call[c].input)
     IN  /\ q.forUpdate => FreeFor(c, Candidates(q.condition))
         /\ lock' = IF q.forUpdate
                    THEN [k \in Keys |-> IF k \in matched THEN c ELSE lock[k]]
                    ELSE lock
         /\ call' = [call EXCEPT ![c] =
              IF error # ""
              THEN [@ EXCEPT !.pc = "done", !.decision = "blocked",
                             !.seen = [k \in matched |-> rows[k].ts],
                             !.result = <<Result("error", error)>>]
              ELSE [@ EXCEPT !.pc = "executing", !.decision = "allowed",
                             !.seen = [k \in matched |-> rows[k].ts],
                             !.execArgs = Append(@, SmartResolve(ResolverOverride, params))]]
  /\ UNCHANGED <<phase, table, types, built, rows>>

\* variant of the rejected query in which the wrapper swallows the error and
\* goes on to the resolver
VerifyFailSwallowed(c) ==
  /\ call[c].pc = "verifying"
  /\ call' = [call EXCEPT ![c] =
       [@ EXCEPT !.pc = "executing", !.decision = "error",
                 !.execArgs = Append(@, SmartResolve(ResolverOverride, ResolveParams(call[c].input)))]]
  /\ UNCHANGED <<phase, table, types, built, rows, lock>>

\* variant of the rejected query in which the wrapper issues the query again
VerifyFailRetry(c) ==
  /\ call[c].pc = "verifying"
  /\ call' = [call EXCEPT ![c] =
       IF call[c].queries < 2
       THEN [@ EXCEPT !.queries = @ + 1]
       ELSE [@ EXCEPT !.pc = "done", !.decision = "error",
                      !.result = <<Result("error", "query failed")>>]]
  /\ UNCHANGED <<phase, table, types, built, rows, lock>>

\* pgClient.query rejects: the connection fails, the statement times out or is
\* cancelled while it waits for the lock
VerifyFail(c) ==
  /\ call[c].pc = "verifying"
  /\ call' = [call EXCEPT ![c] =
       [@ EXCEPT !.pc = "done", !.decision = "error",
                 !.result = <<Result("error", "query failed")>>]]
  /\ UNCHANGED <<phase, table, types, built, rows, lock>>

-----------------------------------------------------------------------------
(* The underlying resolver and the transaction around the call              *)

IsRowMutation(f) == f.isPgUpdateMutationField \/ f.isPgDeleteMutationField

\* the row an update leaves: a trigger moves the timestamp forward by adv
UpdatedRow(row, adv) ==
  IF FindTimestampAttribute(table) = <<>> THEN row
  ELSE Row(TRUE, <<(IF row.ts = <<>> THEN InitTs ELSE row.ts[1]) + adv>>)

\* the resolver locates the row from the input it was called with
ExecutorCondition(f, input) ==
  IF f.isPgNodeMutation THEN getNodeMutationCondition(table, input)
  ELSE getMutationCondition(table, input)

\* what the call returns once the resolver returned execResult
Returned(c, execResult) ==
  IF call[c].wrapped THEN <<WrapperReturn(execResult)>> ELSE <<execResult>>

\* The underlying resolver runs its statement: an update or delete takes the
\* row lock itself (waiting for other transactions), writes within the call's
\* transaction, and fails when it finds no row.
ExecutorRun(c) ==
  /\ call[c].pc = "executing"
  /\ LET f     == call[c].scope
         input == call[c].execArgs[Len(call[c].execArgs)][2]
         cond  == ExecutorCondition(f, input)
         matched == {k \in Candidates(cond.condition) : rows[k].present}
         finish(res, w) ==
           call' = [call EXCEPT ![c] =
             [@ EXCEPT !.pc = "done", !.execResult = <<res>>,
                       !.result = Returned(c, res), !.writes = w]]
     IN  IF ~IsRowMutation(f)
         THEN finish(Result("payload", f.name), <<>>) /\ lock' = lock
         ELSE IF cond.error # ""
         THEN finish(Result("error", cond.error), <<>>) /\ lock' = lock
         ELSE /\ FreeFor(c, Candidates(cond.condition))
              /\ lock' = [k \in Keys |-> IF k \in matched THEN c ELSE lock[k]]
              /\ IF matched = {}
                 THEN finish(Result("error", "No values were found"), <<>>)
                 ELSE \E adv \in Advances :
                        finish(Result("payload", f.name),
                               [k \in matched |->
                                  IF f.isPgDeleteMutationField THEN Row(FALSE, <<>>)
                                  ELSE UpdatedRow(rows[k], adv)])
  /\ UNCHANGED <<phase, table, types, built, rows>>

\* the underlying resolver throws for a reason of its own
ExecutorFail(c) ==
  /\ call[c].pc = "executing"
  /\ call' = [call EXCEPT ![c] =
       [@ EXCEPT !.pc = "done", !.execResult = <<Result("error", "executor failed")>>,
                 !.result = Returned(c, Result("error", "executor failed"))]]
  /\ UNCHANGED <<phase, table, types, built, rows, lock>>

\* variant of the end of a transaction that leaves the row locks in place
EndTransactionKeepsLocks(c) ==
  /\ call[c].pc = "done"
  /\ rows' = [k \in Keys |-> IF k \in DOMAIN call[c].writes THEN call[c].writes[k] ELSE rows[k]]
  /\ call' = [call EXCEPT ![c].pc = "closed"]
  /\ UNCHANGED <<phase, table, types, built, lock>>

\* The transaction of the call ends: its writes become the committed rows and
\* its row locks are released.
EndTransaction(c) ==
  /\ call[c].pc = "done"
  /\ rows' = [k \in Keys |-> IF k \in DOMAIN call[c].writes THEN call[c].writes[k] ELSE rows[k]]
  /\ lock' = [k \in Keys |-> IF lock[k] = c THEN NoCall ELSE lock[k]]
  /\ call' = [call EXCEPT ![c].pc = "closed"]
  /\ UNCHANGED <<phase, table, types, built>>

Next ==
  \/ BuildInputType
  \/ FinishBuild
  \/ \E c \in Calls : Resolve(c)
  \/ \E c \in Calls : VerifyReturn(c)
  \/ \E c \in Calls : VerifyFail(c)
  \/ \E c \in Calls : ExecutorRun(c)
  \/ \E c \in Calls : ExecutorFail(c)
  \/ \E c \in Calls : EndTransaction(c)

Spec == Init /\ [][Next]_vars

\* The promises the code awaits settle: the query returns once the row locks
\* it waits for are free, the resolver runs its statement, and the transaction
\* of a call that returned commits or rolls back. Nothing obliges a query or a
\* resolver to fail.
FairSpec ==
  /\ Spec
  /\ \A c \in Calls :
       /\ WF_vars(VerifyReturn(c))
       /\ WF_vars(ExecutorRun(c))
       /\ WF_vars(EndTransaction(c))

-----------------------------------------------------------------------------
(* Vocabulary of the properties                                             *)

HasTimestamp == FindTimestampAttribute(table) # <<>>
OptedOut == Truthy(table.tags.disableSafeUpdateAndDelete)
GuardedTable == HasTimestamp /\ ~OptedOut

Started(c) == call[c].pc # "idle"
Finished(c) == call[c].pc \in {"done", "closed"}
\* the verification query of c returned rows (possibly none)
Verified(c) == call[c].decision \in {"allowed", "blocked"}
Supplied(c) == call[c].input[Column(timestampColumn)]

Far(ts, s) == ts # <<>> /\ (s - ts[1] > Tolerance \/ ts[1] - s > Tolerance)
Near(ts, s) == ts # <<>> /\ s - ts[1] <= Tolerance /\ ts[1] - s <= Tolerance

NeverExecuted(c) ==
  call[c].execArgs = <<>> /\ call[c].execResult = <<>> /\ call[c].writes = <<>>

FailedWith(c, message) == Finished(c) /\ call[c].result = <<Result("error", message)>>

ExecutedOnceUnchanged(c) == call[c].execArgs = <<ResolveParams(call[c].input)>>

ReturnsExecutorResult(c) ==
  Finished(c) => call[c].execResult # <<>> /\ call[c].result = call[c].execResult

\* C1: a guarded call whose verification query found a row stamped more than
\* the tolerance away from the supplied timestamp fails with the conflict
\* error, and its resolver is never invoked.
C1_FarRowBlocks ==
  \A c \in Calls :
    (Verified(c) /\ \E k \in DOMAIN call[c].seen : Far(call[c].seen[k], Supplied(c)))
      => /\ FailedWith(c, "Mutation blocked due to conflict.")
         /\ NeverExecuted(c)

C1_Witness ==
  \E c \in Calls :
    /\ call[c].pc = "closed" /\ call[c].wrapped
    /\ \E k \in DOMAIN call[c].seen : Far(call[c].seen[k], Supplied(c))
    /\ call[c].result = <<ConflictError>>

\* C2: a guarded call whose verification query found a row stamped within the
\* tolerance of the supplied timestamp invokes the resolver exactly once, with
\* the original parameters, and returns exactly what the resolver returned.
C2_NearRowExecutesOnce ==
  \A c \in Calls :
    (Verified(c) /\ call[c].seen # <<>>
       /\ \A k \in DOMAIN call[c].seen : Near(call[c].seen[k], Supplied(c)))
      => /\ call[c].decision = "allowed"
         /\ ExecutedOnceUnchanged(c)
         /\ ReturnsExecutorResult(c)

C2_Witness ==
  \E c \in Calls :
    /\ call[c].pc = "closed" /\ call[c].wrapped /\ Verified(c)
    /\ call[c].seen # <<>>
    /\ \A k \in DOMAIN call[c].seen : Near(call[c].seen[k], Supplied(c))
    /\ call[c].result = <<Result("payload", call[c].scope.name)>>

\* C3: a guarded call whose verification query returns no rows is blocked: it
\* fails with the conflict error and its resolver is not invoked.
C3_NoRowBlocks ==
  \A c \in Calls :
    (Verified(c) /\ call[c].seen = <<>>)
      => /\ call[c].decision = "blocked"
         /\ FailedWith(c, "Mutation blocked due to conflict.")
         /\ NeverExecuted(c)

\* the keys the locating condition of a call selects
LocatedKeys(c) ==
  LET q == getVerifyTimestampSqlQuery(call[c].scope, table, call[c].input)
  IN  IF q.error # "" THEN {} ELSE Candidates(q.condition)

\* no failure was injected into the call: its query and its resolver worked
NoFailure(c) ==
  call[c].result \notin {<<Result("error", "query failed")>>, <<Result("error", "executor failed")>>}

\* two guarded update calls that locate the same row, stamped InitTs when the
\* server started, and both supply InitTs
SameRowUpdates(a, b) ==
  /\ a # b
  /\ call[a].queries = 1 /\ call[b].queries = 1
  /\ call[a].scope.isPgUpdateMutationField /\ call[b].scope.isPgUpdateMutationField
  /\ LocatedKeys(a) = LocatedKeys(b)
  /\ LocatedKeys(a) \subseteq {<<1, 1>>, <<1, 2>>}
  /\ Supplied(a) = InitTs /\ Supplied(b) = InitTs

Succeeded(c) == call[c].result = <<Result("payload", call[c].scope.name)>>

\* the update of c left a timestamp within the tolerance of the one it replaced
WroteNear(c) ==
  \E k \in DOMAIN call[c].writes :
    call[c].writes[k].present /\ Near(call[c].writes[k].ts, call[c].seen[k][1])

ExactlyOneSucceeds(a, b) ==
  /\ ~(call[a].execArgs # <<>> /\ call[b].execArgs # <<>>)
  /\ (call[a].pc = "closed" /\ call[b].pc = "closed")
       => \/ Succeeded(a) /\ call[b].result = <<ConflictError>>
          \/ Succeeded(b) /\ call[a].result = <<ConflictError>>

C5_LockSpansCheckAndWrite ==
  \A c \in Calls :
    (Verified(c) /\ call[c].pc \in {"executing", "done"})
      => /\ \A k \in LocatedKeys(c) : rows[k].present => lock[k] = c
         /\ \A k \in DOMAIN call[c].writes :
              k \in DOMAIN call[c].seen /\ rows[k].ts = call[c].seen[k]

C5_Witness ==
  \E c, d \in Calls :
    /\ Verified(c) /\ call[c].pc = "done" /\ call[c].writes # <<>>
    /\ call[d].pc = "verifying" /\ LocatedKeys(d) = LocatedKeys(c)

Decoded(c) == getTypeAndIdentifiersFromNodeId(call[c].input[nodeIdFieldName])

\* nothing reached the database or the resolver on behalf of c
NothingIssued(c) ==
  call[c].queries = 0 /\ NeverExecuted(c) /\ \A k \in Keys : lock[k] # c

\* C6: in a guarded call by node id, an id of another type fails the call with
\* "Mismatched type", and an id of the table's type with a number of values
\* other than the primary key's fails it with "Invalid ID" (the type is checked
\* first); either way no query is issued, no lock taken, no resolver invoked.
C6_MalformedNodeIdAborts ==
  \A c \in Calls :
    (Started(c) /\ call[c].wrapped /\ HasTimestamp /\ call[c].scope.isPgNodeMutation)
      => /\ Decoded(c).Type # TableType
              => FailedWith(c, "Mismatched type") /\ NothingIssued(c)
         /\ (Decoded(c).Type = TableType /\ Len(Decoded(c).identifiers) # Len(PrimaryKey))
              => FailedWith(c, "Invalid ID") /\ NothingIssued(c)

C6_Witness ==
  \E a, b \in Calls :
    /\ call[a].pc = "closed" /\ call[a].result = <<Result("error", "Mismatched type")>>
    /\ call[b].pc = "closed" /\ call[b].result = <<Result("error", "Invalid ID")>>

\* every input type built so far has exactly the fields it was given
FragmentsUnchanged ==
  \A i \in 1..Len(built) : built[i].fields = types[i].fields

\* the call went through to the resolver as if nothing wrapped it
PassedThrough(c) ==
  /\ call[c].queries = 0 /\ call[c].decision = "none"
  /\ ExecutedOnceUnchanged(c)
  /\ ReturnsExecutorResult(c)
  /\ call[c].result # <<ConflictError>>

\* C7: for a table without the timestamp column the hook returns every input
\* type unchanged, and every call issues no verification query, invokes the
\* resolver exactly once and returns its result.
C7_NoColumnNoOp ==
  ~HasTimestamp => /\ FragmentsUnchanged
                   /\ \A c \in Calls : Started(c) => PassedThrough(c)

C7_Witness ==
  /\ ~HasTimestamp /\ ~OptedOut /\ Len(built) = Len(types)
  /\ \E c \in Calls : /\ call[c].pc = "closed" /\ call[c].wrapped
                      /\ call[c].scope.isPgDeleteMutationField /\ Succeeded(c)

\* C8: for a table with the opt-out tag, with or without the timestamp column,
\* the hook returns every input type unchanged, no resolver is wrapped, no
\* verification query is issued and no conflict error raised.
C8_OptOutNoOp ==
  OptedOut => /\ FragmentsUnchanged
              /\ \A c \in Calls : Started(c) => ~call[c].wrapped /\ PassedThrough(c)

C8_Witness ==
  /\ OptedOut /\ HasTimestamp /\ Len(built) = Len(types)
  /\ \E c \in Calls : /\ call[c].pc = "closed" /\ call[c].scope.isPgUpdateMutationField
                      /\ Succeeded(c) /\ call[c].writes # <<>>

HasRequiredTimestampField(fields) ==
  \E f \in fields : f.name = Column(timestampColumn) /\ f.nonNull

\* C9: on a guarded table every update and delete input type built has the
\* required non-null timestamp field under its inflected name; and an input
\* type has the field exactly when the wrapper verifies the calls of the
\* mutation the type belongs to.
C9_FieldOnGuardedInputs ==
  /\ GuardedTable =>
       \A i \in 1..Len(built) :
         (types[i].isPgUpdateInputType \/ types[i].isPgDeleteInputType)
           => HasRequiredTimestampField(built[i].fields)
  /\ \A c \in Calls :
       Started(c) => (HasField(BuiltFields(built, call[c].scope.inputType), Column(timestampColumn))
                        <=> call[c].decision # "none" \/ call[c].queries = 1)

C9_Witness ==
  /\ GuardedTable /\ phase = "serve"
  /\ \E a, b \in Calls :
       /\ call[a].pc = "closed" /\ call[a].scope.isPgDeleteMutationField /\ Verified(a)
       /\ call[b].pc = "closed" /\ call[b].scope.name = "createItem" /\ call[b].queries = 0

\* C10: for an input type that is neither an update nor a delete input type,
\* with or without a table in its scope, the hook returns the fields unchanged
\* and throws nothing.
C10_OtherFragmentsUntouched ==
  /\ phase # "failed"
  /\ \A i \in 1..Len(built) :
       (~types[i].isPgUpdateInputType /\ ~types[i].isPgDeleteInputType)
         => built[i].fields = types[i].fields

\* C11: a call that failed while decoding the node id or because its
\* verification query was rejected ends with that error, not the conflict
\* error, and its resolver is never invoked.
C11_ErrorPathsAbort ==
  \A c \in Calls :
    call[c].decision = "error"
      => /\ Finished(c)
         /\ NeverExecuted(c)
         /\ call[c].result # <<ConflictError>>
         /\ call[c].queries = 0
              => call[c].result =
                   <<Result("error", IF Decoded(c).Type # TableType
                                     THEN "Mismatched type" ELSE "Invalid ID")>>
         /\ call[c].queries = 1 => call[c].result = <<Result("error", "query failed")>>

\* the query of one call was rejected while the other call held the row lock
C11_Witness ==
  \E c, d \in Calls :
    /\ call[c].pc = "closed" /\ call[c].decision = "error" /\ call[c].queries = 1
    /\ call[c].result = <<Result("error", "query failed")>>
    /\ call[d].pc = "done" /\ Verified(d)
    /\ \E k \in LocatedKeys(c) : lock[k] = d

\* the field is not a root update or delete mutation
OtherField(f) ==
  ~f.isRootMutation \/ (~f.isPgUpdateMutationField /\ ~f.isPgDeleteMutationField)

\* C12: a field that is not a root update or delete mutation is never wrapped:
\* its calls issue no verification query, take no lock for verification, and
\* the resolver runs once with the original parameters and its result is the
\* call's.
C12_OnlyRootUpdateDeleteVerified ==
  /\ \A f \in SchemaFields : OtherField(f) => ~WrapFilter(f, table)
  /\ \A c \in Calls :
       (Started(c) /\ OtherField(call[c].scope))
         => /\ ~call[c].wrapped
            /\ call[c].queries = 0 /\ call[c].decision = "none" /\ call[c].seen = <<>>
            /\ \A k \in Keys : lock[k] # c
            /\ ExecutedOnceUnchanged(c)
            /\ ReturnsExecutorResult(c)

C12_Witness ==
  /\ GuardedTable
  /\ \E a, b \in Calls :
       /\ call[a].pc = "closed" /\ call[a].scope.name = "createItem" /\ Succeeded(a)
       /\ call[b].pc = "closed" /\ ~call[b].scope.isRootMutation /\ Succeeded(b)

\* the input of a guarded call yields a locating condition
Locatable(c) ==
  call[c].scope.isPgNodeMutation
    => Decoded(c).Type = TableType /\ Len(Decoded(c).identifiers) = Len(PrimaryKey)

\* C13: a guarded call whose condition could be built issues exactly one
\* verification query, the resolver is not invoked while that query is
\* outstanding, and nothing is retried: no call issues a second query or
\* invokes the resolver twice, and after a conflict or a rejected query the
\* call is over without the resolver.
C13_OneQueryNoRetry ==
  \A c \in Calls :
    /\ call[c].queries <= 1
    /\ Len(call[c].execArgs) <= 1
    /\ (Started(c) /\ call[c].wrapped /\ HasTimestamp /\ Locatable(c)) => call[c].queries = 1
    /\ call[c].pc = "verifying" => NeverExecuted(c)
    /\ (call[c].queries = 1 /\ call[c].execArgs # <<>>) => call[c].decision = "allowed"
    /\ call[c].decision \in {"blocked", "error"} => Finished(c) /\ NeverExecuted(c)

C13_Witness ==
  \E a, b \in Calls :
    /\ call[a].pc = "closed" /\ call[a].decision = "blocked"
    /\ call[a].queries = 1 /\ NeverExecuted(a)
    /\ call[b].pc = "closed" /\ call[b].decision = "error"
    /\ call[b].queries = 1 /\ NeverExecuted(b)

\* C14: for a row with a stored timestamp v and a supplied timestamp s the
\* call is allowed exactly when v - 5us <= s <= v + 5us, both ends included.
C14_InclusiveSymmetricWindow ==
  \A c \in Calls :
    Verified(c) =>
      \A k \in DOMAIN call[c].seen :
        call[c].seen[k] # <<>> =>
          (call[c].decision = "allowed"
             <=> /\ call[c].seen[k][1] - Tolerance <= Supplied(c)
                 /\ Supplied(c) <= call[c].seen[k][1] + Tolerance)

\* the verification of c compared supplied s with stored v where s - v = d
ComparedAt(c, d) ==
  /\ Verified(c)
  /\ \E k \in DOMAIN call[c].seen :
       call[c].seen[k] # <<>> /\ Supplied(c) - call[c].seen[k][1] = d

\* one call accepted at exactly +5us, the other rejected at exactly -6us
C14_Witness ==
  \E a, b \in Calls :
    /\ ComparedAt(a, Tolerance) /\ call[a].decision = "allowed"
    /\ ComparedAt(b, 0 - (Tolerance + 1)) /\ call[b].decision = "blocked"

\* the other two edges, each reached in some run
C14_AcceptedBelow ==
  \E a \in Calls : ComparedAt(a, 0 - Tolerance) /\ call[a].decision = "allowed"

C14_RejectedAbove ==
  \E b \in Calls : ComparedAt(b, Tolerance + 1) /\ call[b].decision = "blocked"

\* the key values a call names: the decoded identifiers, or the key fields
NamedKey(c) ==
  IF call[c].scope.isPgNodeMutation
  THEN Decoded(c).identifiers
  ELSE [i \in 1..Len(PrimaryKey) |-> call[c].input[Column(PrimaryKey[i])]]

\* the request that carries the values vs in the key fields
KeyRequest(vs) == (Column(PrimaryKey[1]) :> vs[1]) @@ (Column(PrimaryKey[2]) :> vs[2])

BuiltCondition(c) ==
  getVerifyTimestampSqlQuery(call[c].scope, table, call[c].input).condition

\* C15: the condition of a guarded call is the conjunction of column = value
\* over the key columns in declaration order; a node id of the table's type
\* yields the very condition the key fields with the decoded values yield, and
\* the call reads and writes only the row with that key.
C15_SameConditionBothModes ==
  \A c \in Calls :
    (Started(c) /\ call[c].wrapped /\ HasTimestamp /\ Locatable(c))
      => /\ Len(BuiltCondition(c)) = Len(PrimaryKey)
         /\ \A i \in 1..Len(PrimaryKey) :
              /\ BuiltCondition(c)[i].column = PrimaryKey[i]
              /\ BuiltCondition(c)[i].value.sqlValue = NamedKey(c)[i]
         /\ BuiltCondition(c) = getMutationCondition(table, KeyRequest(NamedKey(c))).condition
         /\ DOMAIN call[c].seen \subseteq {NamedKey(c)}
         /\ DOMAIN call[c].writes \subseteq {NamedKey(c)}

\* a call by node id updated row (1,2) and a call by key fields then read the
\* row it left
C15_Witness ==
  \E a, b \in Calls :
    /\ call[a].scope.isPgNodeMutation /\ call[a].pc = "closed" /\ Succeeded(a)
    /\ Decoded(a).identifiers = <<1, 2>> /\ DOMAIN call[a].writes = {<<1, 2>>}
    /\ call[a].writes[<<1, 2>>].present
    /\ ~call[b].scope.isPgNodeMutation /\ Verified(b)
    /\ DOMAIN call[b].seen = {<<1, 2>>}
    /\ call[b].seen[<<1, 2>>] = call[a].writes[<<1, 2>>].ts

ExecutorFailed(c) ==
  call[c].execResult # <<>> /\ call[c].execResult[1].kind = "error"

\* C16: when the verification allowed the call and the underlying resolver
\* failed, the call fails with the resolver's own error, not with the conflict
\* error, and the resolver was called exactly once.
C16_ExecutorFailurePropagates ==
  \A c \in Calls :
    (call[c].decision = "allowed" /\ ExecutorFailed(c))
      => /\ Finished(c)
         /\ call[c].result = call[c].execResult
         /\ call[c].result # <<ConflictError>>
         /\ Len(call[c].execArgs) = 1
         /\ call[c].queries = 1
         /\ call[c].writes = <<>>

\* an allowed call ended with the error the resolver threw
C16_Witness ==
  \E c \in Calls :
    /\ call[c].pc = "closed" /\ call[c].decision = "allowed"
    /\ \E k \in DOMAIN call[c].seen : Near(call[c].seen[k], Supplied(c))
    /\ call[c].result = <<Result("error", "executor failed")>>

\* the guarded delete a returned with row k deleted and still holds its lock,
\* while b, naming the same row and the same timestamp, waits in its query
Racing(a, b, k) ==
  /\ a # b
  /\ call[a].wrapped /\ call[a].scope.isPgDeleteMutationField
  /\ call[a].decision = "allowed" /\ call[a].pc = "done" /\ Succeeded(a)
  /\ lock[k] = a /\ DOMAIN call[a].writes = {k}
  /\ call[b].pc = "verifying" /\ LocatedKeys(b) = {k}
  /\ Supplied(b) = Supplied(a)

\* C17: when a guarded delete of row k committed and a second guarded call
\* naming the same row and the same timestamp had its query return no row, the
\* second call is blocked with the conflict error and its resolver is never
\* invoked.
C17_SecondAfterDeleteBlocked ==
  \A a, b \in Calls : \A k \in Keys :
    ( /\ a # b
      /\ call[a].wrapped /\ call[a].scope.isPgDeleteMutationField
      /\ call[a].decision = "allowed" /\ call[a].pc = "closed" /\ Succeeded(a)
      /\ DOMAIN call[a].writes = {k}
      /\ Verified(b) /\ call[b].seen = <<>>
      /\ LocatedKeys(b) = {k} /\ Supplied(b) = Supplied(a) )
      => /\ call[b].decision = "blocked"
         /\ FailedWith(b, "Mutation blocked due to conflict.")
         /\ NeverExecuted(b)

\* the race of the two calls happens: the second waits while the delete holds
\* the lock
C17_RaceReached == \E a, b \in Calls : \E k \in Keys : Racing(a, b, k)

\* position of a call in the order idle, verifying, executing, done, closed
Rank(pc) ==
  CASE pc = "idle"      -> 0
    [] pc = "verifying" -> 1
    [] pc = "executing" -> 2
    [] pc = "done"      -> 3
    [] pc = "closed"    -> 4

\* the ways a call through the wrapper ends
DoneOutcome(c) ==
  \/ call[c].decision \in {"none", "allowed"}
       /\ call[c].execResult # <<>> /\ call[c].result = call[c].execResult
  \/ call[c].decision = "blocked" /\ call[c].result = <<ConflictError>>
  \/ call[c].decision = "error" /\ call[c].result # <<>>
       /\ call[c].result[1].kind = "error" /\ call[c].execResult = <<>>

\* C20: as long as queries return when the row locks are free, resolvers run
\* and transactions end, from some point on every call that started has
\* returned, so none stays in its query or its resolver forever; a call that
\* returned carries the resolver's outcome, the conflict error or another
\* error; and no call ever moves backwards.
C20_EveryCallReturns ==
  /\ <>[](\A c \in Calls : Started(c) => Finished(c))
  /\ [](\A c \in Calls : Finished(c) => DoneOutcome(c))
  /\ [][\A c \in Calls : Rank(call'[c].pc) >= Rank(call[c].pc)]_vars

\* a guarded call that waited behind the lock of another returned
C20_Witness ==
  \E a, b \in Calls :
    /\ a # b
    /\ call[a].pc = "closed" /\ call[b].pc = "closed"
    /\ Verified(a) /\ Verified(b) /\ call[a].writes # <<>>
    /\ \E k \in DOMAIN call[a].writes :
         k \in DOMAIN call[b].seen /\ call[b].seen[k] = call[a].writes[k].ts

\* C18: the query of a call returns whenever no other call holds the lock of a
\* row its own condition selects, whatever locks other calls hold on other
\* rows; and a call only ever holds locks on rows its own condition selects.
C18_DifferentRowsDoNotBlock ==
  /\ \A c \in Calls :
       (call[c].pc = "verifying" /\ \A k \in LocatedKeys(c) : lock[k] \in {NoCall, c})
         => ENABLED VerifyReturn(c)
  /\ \A c \in Calls : \A k \in Keys :
       lock[k] = c => (IsRowMutation(call[c].scope) /\ k \in Candidates(ExecutorCondition(call[c].scope, call[c].input).condition))

\* a call reached its decision on row (1,1) while another call, decided as
\* well, holds the lock of row (1,2)
C18_Witness ==
  \E a, b \in Calls :
    /\ Verified(a) /\ Verified(b)
    /\ lock[<<1, 1>>] = a /\ lock[<<1, 2>>] = b
    /\ DOMAIN call[a].seen = {<<1, 1>>} /\ DOMAIN call[b].seen = {<<1, 2>>}

\* the query of c matched a row whose stored timestamp is NULL
SawNull(c) == Verified(c) /\ \E k \in DOMAIN call[c].seen : call[c].seen[k] = <<>>

\* C19: a guarded call whose query matched a row with a NULL timestamp is
\* blocked with the conflict error whatever timestamp it supplied, and its
\* resolver is not invoked; on a guarded table no call through the guard ever
\* writes such a row, so the row stays as it is.
C19_NullTimestampBlocks ==
  /\ \A c \in Calls :
       SawNull(c)
         => /\ call[c].decision = "blocked"
            /\ FailedWith(c, "Mutation blocked due to conflict.")
            /\ NeverExecuted(c)
  /\ GuardedTable
       => /\ rows[<<2, 1>>] = Row(TRUE, <<>>)
          /\ \A c \in Calls : <<2, 1>> \notin DOMAIN call[c].writes

\* an update and a delete of the row with the NULL timestamp, with different
\* supplied timestamps, both ended with the conflict error
C19_Witness ==
  \E a, b \in Calls :
    /\ call[a].pc = "closed" /\ call[b].pc = "closed"
    /\ SawNull(a) /\ SawNull(b)
    /\ call[a].scope.isPgUpdateMutationField /\ call[b].scope.isPgDeleteMutationField
    /\ Supplied(a) # Supplied(b)
    /\ call[a].result = <<ConflictError>> /\ call[b].result = <<ConflictError>>

====
